---- MODULE Spec2Model ----
(***************************************************************************)
(* Model of scripts/check_file_length.py: main() walks sys.argv[1:], opens *)
(* each path, counts its lines with readlines(), prints a diagnostic for   *)
(* every file above MAX_LINES, swallows every Exception raised inside the  *)
(* try block and returns 1 if the failed flag was set, else 0.             *)
(*                                                                         *)
(* One action per statement of main(), so that the open handle, the        *)
(* exception edges and the order of print / failed = True are visible.     *)
(***************************************************************************)
EXTENDS Integers, Sequences, FiniteSets, TLC

\* ---------------------------------------------------------------- bounds
MaxArgs == 2        \* longest argument list explored
MaxTail == 2        \* longest free-form tail of a file's content

\* ------------------------------------------------------ program constants
MAX_LINES == 500

\* ------------------------------------------------------------ file model
\* Characters of a decoded text file: an ordinary character and the two
\* characters that text mode (newline=None) treats as line terminators.
X  == "x"
LF == "LF"
CR == "CR"
Chars == {X, LF, CR}

\* What open()/readlines() can do with a path:
\*   missing, denied : open() raises OSError
\*   ioerror         : open() succeeds, readlines() raises (I/O or decode error)
\*   ok              : open() and readlines() succeed
\* A file's content is `terminated` copies of "x\n" followed by `tail`.
MkFile(st, n, t) == [status |-> st, terminated |-> n, tail |-> t]

Content(f) ==
    [k \in 1..(2 * f.terminated) |-> IF k % 2 = 1 THEN X ELSE LF] \o f.tail

\* The paths of the fixed file system and what each names.
Paths ==
    {"a.txt", "b.txt", "missing.txt", "secret.txt", "c500.txt", "c501.txt",
     "partial.txt", "ioerr.txt", "bad<ff>.txt"}

DefaultFs ==
    [p \in Paths |->
        CASE p = "a.txt"       -> MkFile("ok", 3, <<>>)
          [] p = "b.txt"       -> MkFile("ok", MAX_LINES + 100, <<>>)
          [] p = "missing.txt" -> MkFile("missing", 0, <<>>)
          [] p = "secret.txt"  -> MkFile("denied", MAX_LINES + 100, <<>>)
          [] p = "c500.txt"    -> MkFile("ok", MAX_LINES, <<>>)
          [] p = "c501.txt"    -> MkFile("ok", MAX_LINES + 1, <<>>)
          [] p = "partial.txt" -> MkFile("ok", MAX_LINES, <<X>>)
          [] p = "ioerr.txt"   -> MkFile("ioerror", MAX_LINES + 100, <<>>)
          [] OTHER             -> MkFile("ok", MAX_LINES + 1, <<>>)]

\* Paths that sys.stdout cannot encode (a file name holding a byte that is
\* not valid UTF-8 reaches sys.argv as a lone surrogate; a strict UTF-8
\* stdout raises UnicodeEncodeError when print() writes it).
Unencodable == {"bad<ff>.txt"}
Encodable(filepath) == filepath \notin Unencodable

\* ------------------------------------------------------- pure functions
\* f.readlines() in text mode with universal newlines: "\n", "\r" and "\r\n"
\* each end a line (and are translated to "\n"); a non-empty remainder after
\* the last terminator is a line of its own.
RECURSIVE ReadFrom(_, _, _, _)
ReadFrom(s, k, cur, acc) ==
    IF k > Len(s)
    THEN IF cur = <<>> THEN acc ELSE Append(acc, cur)
    ELSE IF s[k] = LF
    THEN ReadFrom(s, k + 1, <<>>, Append(acc, Append(cur, LF)))
    ELSE IF s[k] = CR
    THEN ReadFrom(s, IF k < Len(s) /\ s[k + 1] = LF THEN k + 2 ELSE k + 1,
                  <<>>, Append(acc, Append(cur, LF)))
    ELSE ReadFrom(s, k + 1, Append(cur, s[k]), acc)

\* The reader's accumulator once it has consumed the `terminated` leading
\* "x\n" lines of a file: that many complete lines, no pending partial line.
AfterPrefix(f) == [k \in 1..f.terminated |-> <<X, LF>>]

\* A reader that only yields terminated lines (drops a final partial line).
readlinesTerminatedOnly(f) ==
    LET all == ReadFrom(f.tail, 1, <<>>, AfterPrefix(f))
    IN  IF f.tail # <<>> /\ f.tail[Len(f.tail)] \notin {LF, CR}
        THEN SubSeq(all, 1, Len(all) - 1)
        ELSE all

\* f.readlines() on file f: the reader runs over the whole content; over the
\* leading "x\n" lines it is back in its start state after each of them, so
\* it continues on the tail with those lines accumulated.
readlines(f) == ReadFrom(f.tail, 1, <<>>, AfterPrefix(f))

\* lines > MAX_LINES
Exceeds(lines_) == lines_ > MAX_LINES

\* f"{filepath}: {lines} lines (max {MAX_LINES})", kept as its pieces.
Format(filepath, lines_) ==
    <<filepath, ": ", ToString(lines_), " lines (max ", ToString(MAX_LINES), ")">>

\* A return value with the two codes swapped.
ExitCodeInverted(failed_) == IF failed_ THEN 0 ELSE 1

\* return 1 if failed else 0
ExitCode(failed_) == IF failed_ THEN 1 ELSE 0

\* with-block exit that only closes on the normal path.
WithExitLeaky(hs, h, raising) == IF raising THEN hs ELSE hs \ {h}

\* __exit__ of `with open(filepath) as f`: closes the handle whether or not
\* the body raised.
WithExit(hs, h, raising) == hs \ {h}

\* ------------------------------------------------------------------ state
VARIABLES
    argv,       \* sys.argv[1:]
    fs,         \* the file system: path -> file (never changed by the run)
    i,          \* number of paths the for loop has taken so far
    pc,         \* statement about to run
    handles,    \* open file handles (the argv index that opened each)
    raising,    \* the with-block body raised; the exception is in flight
    lines,      \* local variable `lines`
    failed,     \* local variable `failed`
    stdout,     \* lines written to standard output
    exitCode,   \* <<v>> once main() has returned v, <<>> before
    visited     \* history: argv positions the loop has taken, in order

vars == <<argv, fs, i, pc, handles, raising, lines, failed, stdout, exitCode, visited>>

RECURSIVE SeqsUpTo(_, _)
SeqsUpTo(S, n) ==
    IF n = 0 THEN {<<>>}
    ELSE LET shorter == SeqsUpTo(S, n - 1)
         IN  shorter \cup {Append(s, e) : s \in shorter, e \in S}

Locals ==
    /\ i = 0
    /\ pc = "for"
    /\ handles = {}
    /\ raising = FALSE
    /\ lines = 0
    /\ failed = FALSE
    /\ stdout = <<>>
    /\ exitCode = <<>>
    /\ visited = <<>>

\* Any argument list of at most MaxArgs paths over the fixed file system.
Init ==
    /\ argv \in SeqsUpTo(Paths, MaxArgs)
    /\ fs = DefaultFs
    /\ Locals

\* Files that differ in how they end, for each way a path can behave.
Tails == SeqsUpTo(Chars, MaxTail)

LineFiles ==
    {MkFile("ok", n, t) : n \in {0, MAX_LINES - 1, MAX_LINES}, t \in Tails}
        \cup {MkFile("missing", 0, <<>>), MkFile("denied", 0, <<>>),
              MkFile("ioerror", MAX_LINES, <<>>)}

\* A single argument naming any of those files.
InitLines ==
    /\ \E p \in {"a.txt", "bad<ff>.txt"}, f \in LineFiles :
          /\ argv = <<p>>
          /\ fs = [DefaultFs EXCEPT ![p] = f]
    /\ Locals

filepath == argv[i]
file == fs[argv[i]]

\* for filepath in sys.argv[1:]  -- next element
ForNext ==
    /\ pc = "for"
    /\ i < Len(argv)
    /\ i' = i + 1
    /\ visited' = Append(visited, i + 1)
    /\ pc' = "open"
    /\ UNCHANGED <<argv, fs, handles, raising, lines, failed, stdout, exitCode>>

\* for ... -- iterator exhausted
ForExhausted ==
    /\ pc = "for"
    /\ i = Len(argv)
    /\ pc' = "return"
    /\ UNCHANGED <<argv, fs, i, handles, raising, lines, failed, stdout, exitCode, visited>>

\* open(filepath) succeeds
OpenOk ==
    /\ pc = "open"
    /\ file.status \in {"ok", "ioerror"}
    /\ handles' = handles \cup {i}
    /\ raising' = FALSE
    /\ pc' = "read"
    /\ UNCHANGED <<argv, fs, i, lines, failed, stdout, exitCode, visited>>

\* open(filepath) raises: control goes to `except Exception`
OpenErr ==
    /\ pc = "open"
    /\ file.status \in {"missing", "denied"}
    /\ pc' = "except"
    /\ UNCHANGED <<argv, fs, i, handles, raising, lines, failed, stdout, exitCode, visited>>

\* lines = len(f.readlines())
ReadOk ==
    /\ pc = "read"
    /\ file.status = "ok"
    /\ lines' = Len(readlines(file))
    /\ raising' = FALSE
    /\ pc' = "close"
    /\ UNCHANGED <<argv, fs, i, handles, failed, stdout, exitCode, visited>>

\* f.readlines() raises; `lines` is not assigned
ReadErr ==
    /\ pc = "read"
    /\ file.status = "ioerror"
    /\ raising' = TRUE
    /\ pc' = "close"
    /\ UNCHANGED <<argv, fs, i, handles, lines, failed, stdout, exitCode, visited>>

\* leaving the with block
Close ==
    /\ pc = "close"
    /\ handles' = WithExit(handles, i, raising)
    /\ raising' = FALSE
    /\ pc' = IF raising THEN "except" ELSE "cmp"
    /\ UNCHANGED <<argv, fs, i, lines, failed, stdout, exitCode, visited>>

\* if lines > MAX_LINES: -- taken
CompareOver ==
    /\ pc = "cmp"
    /\ Exceeds(lines)
    /\ pc' = "print"
    /\ UNCHANGED <<argv, fs, i, handles, raising, lines, failed, stdout, exitCode, visited>>

\* if lines > MAX_LINES: -- not taken
CompareWithin ==
    /\ pc = "cmp"
    /\ ~Exceeds(lines)
    /\ pc' = "for"
    /\ UNCHANGED <<argv, fs, i, handles, raising, lines, failed, stdout, exitCode, visited>>

\* print(...) writes the diagnostic
PrintOk ==
    /\ pc = "print"
    /\ Encodable(filepath)
    /\ stdout' = Append(stdout, Format(filepath, lines))
    /\ pc' = "set_failed"
    /\ UNCHANGED <<argv, fs, i, handles, raising, lines, failed, exitCode, visited>>

\* print(...) raises UnicodeEncodeError inside the try block: nothing is
\* written and `failed = True` is skipped
PrintErr ==
    /\ pc = "print"
    /\ ~Encodable(filepath)
    /\ pc' = "except"
    /\ UNCHANGED <<argv, fs, i, handles, raising, lines, failed, stdout, exitCode, visited>>

\* An assignment that leaves the flag as it was.
SetFailedNoop ==
    /\ pc = "set_failed"
    /\ pc' = "for"
    /\ UNCHANGED <<argv, fs, i, handles, raising, lines, failed, stdout, exitCode, visited>>

\* failed = True
SetFailed ==
    /\ pc = "set_failed"
    /\ failed' = TRUE
    /\ pc' = "for"
    /\ UNCHANGED <<argv, fs, i, handles, raising, lines, stdout, exitCode, visited>>

\* A handler that counts an exception as a failure.
ExceptMarksFailed ==
    /\ pc = "except"
    /\ failed' = TRUE
    /\ pc' = "for"
    /\ UNCHANGED <<argv, fs, i, handles, raising, lines, stdout, exitCode, visited>>

\* except Exception: pass
Except ==
    /\ pc = "except"
    /\ pc' = "for"
    /\ UNCHANGED <<argv, fs, i, handles, raising, lines, failed, stdout, exitCode, visited>>

\* return 1 if failed else 0
Return ==
    /\ pc = "return"
    /\ exitCode' = <<ExitCode(failed)>>
    /\ pc' = "done"
    /\ UNCHANGED <<argv, fs, i, handles, raising, lines, failed, stdout, visited>>

Next ==
    \/ ForNext
    \/ ForExhausted
    \/ OpenOk
    \/ OpenErr
    \/ ReadOk
    \/ ReadErr
    \/ Close
    \/ CompareOver
    \/ CompareWithin
    \/ PrintOk
    \/ PrintErr
    \/ SetFailed
    \/ Except
    \/ Return

Spec == Init /\ [][Next]_vars

SpecLines == InitLines /\ [][Next]_vars

\* ------------------------------------------------- vocabulary of the claims
FileAt(k) == fs[argv[k]]

\* open() and readlines() both succeed on the file.
Readable(f) == f.status = "ok"

\* The line count as the specification words it, on the flat content: the
\* number of line breaks, plus one if the file is non-empty and does not end
\* in a line break.  A line break is "\n", "\r\n" (one break) or a lone "\r".
IsBreakAt(c, k) == c[k] = LF \/ (c[k] = CR /\ ~(k < Len(c) /\ c[k + 1] = LF))
LineBreaks(c) == Cardinality({k \in 1..Len(c) : IsBreakAt(c, k)})
EndsInBreak(c) == c # <<>> /\ c[Len(c)] \in {LF, CR}
SpecLineCount(c) == LineBreaks(c) + (IF c # <<>> /\ ~EndsInBreak(c) THEN 1 ELSE 0)
CountOf(f) == SpecLineCount(Content(f))

Oversized(f) == Readable(f) /\ CountOf(f) > MAX_LINES

\* The loop has finished with argv[k].
Done(k) == k < i \/ (k = i /\ pc \in {"for", "return", "done"})

\* Diagnostics on stdout that carry path p; finished occurrences of p in argv.
NumDiags(p) == Cardinality({j \in 1..Len(stdout) : stdout[j][1] = p})
NumDone(p) == Cardinality({k \in 1..Len(argv) : Done(k) /\ argv[k] = p})

AnyOversized == \E k \in 1..Len(argv) : Oversized(FileAt(k))
NoneReadable == \A k \in 1..Len(argv) : ~Readable(FileAt(k))

\* ------------------------------------------------------------------ claims

\* C1: main() returns 1 if and only if some path names a readable file with
\* more than 500 lines, otherwise 0; it never returns anything else.
C1ExitIffOversized ==
    /\ exitCode \in {<<>>, <<0>>, <<1>>}
    /\ pc = "done" => exitCode = <<IF AnyOversized THEN 1 ELSE 0>>

\* C2: the threshold is strict: a finished readable file of at most 500 lines
\* has no diagnostic and does not set the failed flag, and a finished file of
\* exactly 501 lines has a diagnostic.
C2StrictThreshold ==
    /\ \A k \in 1..Len(argv) :
          (Done(k) /\ Readable(FileAt(k))) =>
             /\ CountOf(FileAt(k)) <= MAX_LINES => NumDiags(argv[k]) = 0
             /\ CountOf(FileAt(k)) = MAX_LINES + 1 => NumDiags(argv[k]) >= 1
    /\ (\A k \in 1..Len(argv) : Done(k) => ~Oversized(FileAt(k))) => ~failed

\* C3: between paths, every finished readable file of more than 500 lines has
\* exactly one diagnostic per occurrence, carrying its path, its own count
\* and 500, and has marked the run failed (exit code 1); stdout holds no
\* other line.
C3OneDiagnosticPerOversized ==
    /\ \A k \in 1..Len(argv) :
          (pc \in {"for", "return", "done"} /\ Done(k) /\ Oversized(FileAt(k))) =>
             /\ NumDiags(argv[k]) = NumDone(argv[k])
             /\ failed
    /\ \A j \in 1..Len(stdout) :
          \E k \in 1..Len(argv) :
             /\ Oversized(FileAt(k))
             /\ stdout[j] = <<argv[k], ": ", ToString(CountOf(FileAt(k))),
                              " lines (max ", "500", ")">>
    /\ (pc = "done" /\ AnyOversized) => exitCode = <<1>>

\* C4: a path that cannot be opened or read is skipped silently: while it is
\* being processed the failed flag and stdout do not change, the exception is
\* caught and the loop resumes, and the exit code is decided by the readable
\* paths alone (so it is what it would be with the unreadable paths removed).
C4SkipsUnreadable ==
    /\ [][(pc \in {"open", "read", "close", "except"} /\ ~Readable(file))
            => (failed' = failed /\ stdout' = stdout)]_vars
    /\ [][pc = "except" => pc' = "for"]_vars
    /\ [](pc = "done" =>
            /\ exitCode \in {<<0>>, <<1>>}
            /\ exitCode = <<1>> <=>
                  \E k \in 1..Len(argv) :
                     Oversized(FileAt(k)) /\ Encodable(argv[k]))

C4Witness ==
    /\ pc = "done"
    /\ Len(argv) = 2
    /\ Oversized(FileAt(1)) /\ Encodable(argv[1])
    /\ ~Readable(FileAt(2))
    /\ exitCode = <<1>>
    /\ Len(stdout) = 1

\* C5: the count readlines() yields is the number of line breaks, plus one if
\* the file is non-empty and does not end in a line break; it is never
\* negative, and an empty file counts 0.
C5LineCount ==
    ((pc = "close" /\ ~raising) \/ pc \in {"cmp", "print", "set_failed"}) =>
        /\ lines = SpecLineCount(Content(file))
        /\ lines >= 0
        /\ Content(file) = <<>> => lines = 0

\* 500 terminated lines and an unterminated 501st: counted 501 and reported.
C5Witness ==
    /\ pc = "set_failed"
    /\ file.terminated = MAX_LINES
    /\ file.tail = <<X>>
    /\ lines = MAX_LINES + 1
    /\ Len(stdout) = 1

\* C6: with no paths, or with every path unreadable, the exit code is 0 and
\* stdout is empty.
C6NothingReadable ==
    (pc = "done" /\ NoneReadable) => (exitCode = <<0>> /\ stdout = <<>>)

C6Witness ==
    /\ pc = "done"
    /\ Len(argv) >= 1
    /\ NoneReadable
    /\ exitCode = <<0>>

\* C7: paths are taken in argument order, and between paths stdout is exactly
\* the finished part of argv filtered to the readable oversized files, order
\* kept, one diagnostic each.
C7OutputIsFilteredInput ==
    /\ visited = [k \in 1..i |-> k]
    /\ pc \in {"for", "return", "done"} =>
          LET IsOver(p) == Oversized(fs[p])
              sel == SelectSeq(SubSeq(argv, 1, i), IsOver)
          IN  stdout = [j \in 1..Len(sel) |-> Format(sel[j], CountOf(fs[sel[j]]))]

\* C8: at most one handle is open at any time; it is open only between open()
\* and the end of the with block, and closed on every way out of it, so none
\* is open between paths, in the handler, or when main() returns.
C8HandleDiscipline ==
    /\ Cardinality(handles) <= 1
    /\ pc \in {"read", "close"} => handles = {i}
    /\ pc \notin {"read", "close"} => handles = {}

\* The handler runs after readlines() raised, with the handle released.
C8Witness ==
    /\ pc = "except"
    /\ file.status = "ioerror"
    /\ handles = {}

\* C9: every path is visited exactly once, in order, with no retries, and an
\* unreadable path stops nothing after it: an oversized file that follows an
\* unreadable path is reported and the exit code is 1.
C9VisitsAllReportsAfterUnreadable ==
    /\ visited = [k \in 1..i |-> k]
    /\ pc = "done" =>
          /\ i = Len(argv)
          /\ \A j \in 1..Len(argv) :
                (Oversized(FileAt(j)) /\ \E k \in 1..(j - 1) : ~Readable(FileAt(k)))
                   => (NumDiags(argv[j]) >= 1 /\ exitCode = <<1>>)

\* C10 as stated: in every reachable state the failed flag is true if and
\* only if a diagnostic has been written.
C10FlagIffOutputEverywhere ==
    failed <=> stdout # <<>>

\* C10 as amended: the flag is true if and only if a diagnostic has been
\* written in every state except the one between print() and failed = True;
\* the flag is never reset; at return, exit code 1 exactly when stdout is
\* non-empty.
C10FlagIffOutput ==
    /\ [](pc # "set_failed" => (failed <=> stdout # <<>>))
    /\ [](pc = "done" => (exitCode = <<1>> <=> stdout # <<>>))
    /\ [][failed => failed']_vars

\* The flag, set by the first path, survives a later unreadable path.
C10Witness ==
    /\ pc = "done"
    /\ Len(argv) = 2
    /\ Oversized(FileAt(1))
    /\ ~Readable(FileAt(2))
    /\ failed
    /\ stdout # <<>>
    /\ exitCode = <<1>>

====
